---- MODULE Spec2Model ----
(***************************************************************************)
(* Model of src/configuration.rs: the conversion of a native libusb        *)
(* configuration descriptor into an owned Configuration value, and the     *)
(* accessors of that value.                                                *)
(*                                                                         *)
(* The native side (the descriptor record and the interface array it       *)
(* points to) is owned by the caller; the model lets that owner overwrite  *)
(* or free it, before or after the conversion.  Reading the array through  *)
(* slice::from_raw_parts when it is not valid is undefined behaviour and   *)
(* is modelled as a nondeterministic choice: the process faults, or the    *)
(* read yields arbitrary records.                                          *)
(***************************************************************************)
EXTENDS Integers, Sequences, FiniteSets, TLC

VARIABLES
    desc,     \* the native libusb_config_descriptor, as it is now
    heap,     \* the native interface array desc.interface points to
    config,   \* the Configuration built by from_libusb, or NoConfig
    outcome,  \* "none" before the call, "ok" after it returned, "fault" if it crashed
    ret,      \* the last accessor call and the value it returned
    source,   \* what the native side held when from_libusb read it
    writes    \* number of overwrites the native owner has made

vars == <<desc, heap, config, outcome, ret, source, writes>>

----------------------------------------------------------------------------
(* Bounds of the model *)

MaxIfaces == 2          \* longest native interface array
MaxNativeWrites == 1    \* overwrites of native memory by its owner

(* Widths and masks of the program *)

ByteMax == 255          \* u8
ByteBits == 8
U16Mod == 65536         \* u16
SelfPoweredMask == 64   \* 0x40
RemoteWakeupMask == 32  \* 0x20
Factor == 2             \* max_power is in units of 2 mW
ArrAddr == 1            \* address of the native interface array

Byte == 0 .. ByteMax

\* byte values used for the fields a run does not sweep
ByteSample == {0, ByteMax}

\* native interface records; only the fields the interface converter copies
NativeIfaces ==
    { [bInterfaceNumber |-> 1, iInterface |-> 6],
      [bInterfaceNumber |-> 2, iInterface |-> 0] }

SeqsUpTo(S, n) == UNION { [1 .. k -> S] : k \in 0 .. n }

----------------------------------------------------------------------------
(* Values *)

None == [tag |-> "None"]
Some(n) == [tag |-> "Some", val |-> n]

NoConfig == [tag |-> "NoConfig"]
NoRet == [op |-> "none", val |-> 0]
NoSource == [tag |-> "NoSource"]

\* a & b on u8
RECURSIVE BitAnd(_, _, _)
BitAnd(a, b, n) ==
    IF n = 0 THEN 0
    ELSE (a % 2) * (b % 2) + 2 * BitAnd(a \div 2, b \div 2, n - 1)

----------------------------------------------------------------------------
(* ::interface::from_libusb, the converter of one native interface record *)

interface_from_libusb(interface) ==
    [ number |-> interface.bInterfaceNumber,
      description_index |->
          IF interface.iInterface = 0 THEN None ELSE Some(interface.iInterface) ]

----------------------------------------------------------------------------
(* from_libusb *)

description_index_mut(iConfiguration) ==
    IF iConfiguration = 0 \/ iConfiguration > 127 THEN None ELSE Some(iConfiguration)

\* match configuration.iConfiguration { 0 => None, n => Some(n) }
description_index(iConfiguration) ==
    IF iConfiguration = 0 THEN None ELSE Some(iConfiguration)

collect_interfaces_mut(interfaces) ==
    [k \in 1 .. Len(interfaces) |->
        interface_from_libusb(interfaces[Len(interfaces) + 1 - k])]

\* interfaces.iter().map(|interface| ::interface::from_libusb(&interface)).collect()
collect_interfaces(interfaces) ==
    [k \in 1 .. Len(interfaces) |-> interface_from_libusb(interfaces[k])]

from_libusb_mut(configuration, interfaces) ==
    [ number            |-> configuration.bConfigurationValue % 128,
      description_index |-> description_index(configuration.iConfiguration),
      attributes        |-> configuration.bmAttributes,
      max_power         |-> configuration.bMaxPower,
      interfaces        |-> collect_interfaces(interfaces) ]

\* the Configuration literal; `interfaces` is the slice read from native memory
from_libusb(configuration, interfaces) ==
    [ number            |-> configuration.bConfigurationValue,
      description_index |-> description_index(configuration.iConfiguration),
      attributes        |-> configuration.bmAttributes,
      max_power         |-> configuration.bMaxPower,
      interfaces        |-> collect_interfaces(interfaces) ]

\* the array has at least bNumInterfaces readable records
ValidInput(d, h) ==
    /\ h.alloc
    /\ d.interface = ArrAddr
    /\ d.bNumInterfaces <= Len(h.data)

\* slice::from_raw_parts(configuration.interface, configuration.bNumInterfaces):
\* the slices the read can yield; any records at all when the array is not valid
slice_from_raw_parts(d, h) ==
    IF ValidInput(d, h)
    THEN { SubSeq(h.data, 1, d.bNumInterfaces) }
    ELSE [1 .. d.bNumInterfaces -> NativeIfaces]

ConvertOutcomes_mut(d, h) ==
    IF d.bNumInterfaces = 0
    THEN { [outcome |-> "fault", config |-> NoConfig] }
    ELSE { [outcome |-> "ok", config |-> from_libusb(d, s)] :
               s \in slice_from_raw_parts(d, h) }

\* every way a call of from_libusb can end
ConvertOutcomes(d, h) ==
    { [outcome |-> "ok", config |-> from_libusb(d, s)] :
          s \in slice_from_raw_parts(d, h) }
    \cup
    ( IF ValidInput(d, h) THEN {}
      ELSE { [outcome |-> "fault", config |-> NoConfig] } )

FromLibusb_mut ==
    /\ outcome = "none"
    /\ \E r \in ConvertOutcomes(desc, heap) :
          /\ outcome' = r.outcome
          /\ config' = r.config
          /\ source' = [desc |-> desc, data |-> heap.data, valid |-> ValidInput(desc, heap)]
    /\ heap' = [heap EXCEPT !.alloc = FALSE]
    /\ UNCHANGED <<desc, ret, writes>>

FromLibusb ==
    /\ outcome = "none"
    /\ \E r \in ConvertOutcomes(desc, heap) :
          /\ outcome' = r.outcome
          /\ config' = r.config
          /\ source' = [desc |-> desc, data |-> heap.data, valid |-> ValidInput(desc, heap)]
    /\ UNCHANGED <<desc, heap, ret, writes>>

----------------------------------------------------------------------------
(* impl Configuration *)

number(self) == self.number

max_power_mut(self) == (self.max_power * Factor) % (ByteMax + 1)

\* self.max_power as u16 * 2
max_power(self) == ((self.max_power % U16Mod) * Factor) % U16Mod

self_powered_mut(self) == BitAnd(self.attributes, SelfPoweredMask + RemoteWakeupMask, ByteBits) # 0

\* self.attributes & 0x40 != 0
self_powered(self) == BitAnd(self.attributes, SelfPoweredMask, ByteBits) # 0

remote_wakeup_mut(self) == BitAnd(self.attributes, SelfPoweredMask, ByteBits) # 0

\* self.attributes & 0x20 != 0
remote_wakeup(self) == BitAnd(self.attributes, RemoteWakeupMask, ByteBits) # 0

description_string_index(self) == self.description_index

\* &self.interfaces[..]
interfaces(self) == SubSeq(self.interfaces, 1, Len(self.interfaces))

\* a call of an accessor on the built Configuration: &self, so config is only read
Call(op, val) ==
    /\ outcome = "ok"
    /\ ret' = [op |-> op, val |-> val]
    /\ UNCHANGED <<desc, heap, config, outcome, source, writes>>

NumberCall == Call("number", number(config))

MaxPowerCall_mut ==
    /\ outcome = "ok"
    /\ config' = [config EXCEPT !.max_power = (config.max_power * Factor) % (ByteMax + 1)]
    /\ ret' = [op |-> "max_power", val |-> config'.max_power]
    /\ UNCHANGED <<desc, heap, outcome, source, writes>>

MaxPowerCall == Call("max_power", max_power(config))

SelfPoweredCall == Call("self_powered", self_powered(config))

RemoteWakeupCall == Call("remote_wakeup", remote_wakeup(config))

DescriptionStringIndexCall ==
    Call("description_string_index", description_string_index(config))

InterfacesCall_mut ==
    Call("interfaces",
         [k \in 1 .. Len(config.interfaces) |->
             IF heap.alloc /\ k <= Len(heap.data)
             THEN interface_from_libusb(heap.data[k])
             ELSE interface_from_libusb(CHOOSE i \in NativeIfaces : TRUE)])

InterfacesCall == Call("interfaces", interfaces(config))

----------------------------------------------------------------------------
(* The owner of the native descriptor *)

DescFields == {"bConfigurationValue", "iConfiguration", "bmAttributes", "bMaxPower"}

\* the owner overwrites a byte of the descriptor, the count, or a record of the array
NativeModify ==
    /\ writes < MaxNativeWrites
    /\ writes' = writes + 1
    /\ \/ \E f \in DescFields, v \in ByteSample :
             /\ desc[f] # v
             /\ desc' = [desc EXCEPT ![f] = v]
             /\ heap' = heap
       \/ \E n \in 0 .. MaxIfaces :
             /\ desc.bNumInterfaces # n
             /\ desc' = [desc EXCEPT !.bNumInterfaces = n]
             /\ heap' = heap
       \/ \E k \in 1 .. Len(heap.data), i \in NativeIfaces :
             /\ heap.alloc
             /\ heap.data[k] # i
             /\ heap' = [heap EXCEPT !.data[k] = i]
             /\ desc' = desc
    /\ UNCHANGED <<config, outcome, ret, source>>

\* the owner frees the descriptor's interface array (libusb_free_config_descriptor)
NativeFree ==
    /\ heap.alloc
    /\ heap' = [heap EXCEPT !.alloc = FALSE]
    /\ UNCHANGED <<desc, config, outcome, ret, source, writes>>

----------------------------------------------------------------------------
(* Specifications *)

Descriptor(n, i, a, p, cnt) ==
    [ bConfigurationValue |-> n,
      iConfiguration      |-> i,
      bmAttributes        |-> a,
      bMaxPower           |-> p,
      bNumInterfaces      |-> cnt,
      interface           |-> ArrAddr ]

InitRest ==
    /\ config = NoConfig
    /\ outcome = "none"
    /\ ret = NoRet
    /\ source = NoSource
    /\ writes = 0

\* a descriptor as libusb hands it out: the count is the length of the array
Init ==
    /\ \E n \in ByteSample, i \in ByteSample, a \in ByteSample, p \in ByteSample,
          data \in SeqsUpTo(NativeIfaces, MaxIfaces) :
          /\ desc = Descriptor(n, i, a, p, Len(data))
          /\ heap = [alloc |-> TRUE, data |-> data]
    /\ InitRest

Accessors ==
    \/ NumberCall
    \/ MaxPowerCall
    \/ SelfPoweredCall
    \/ RemoteWakeupCall
    \/ DescriptionStringIndexCall
    \/ InterfacesCall

Next ==
    \/ FromLibusb
    \/ Accessors
    \/ NativeModify
    \/ NativeFree

Spec == Init /\ [][Next]_vars

\* one field sweeps every byte value, the others take the sample values
SweepDescriptors ==
    { Descriptor(n, i, a, p, c) :
          n \in Byte, i \in ByteSample, a \in ByteSample, p \in ByteSample, c \in {0} }
    \cup { Descriptor(n, i, a, p, c) :
          n \in ByteSample, i \in Byte, a \in ByteSample, p \in ByteSample, c \in {0} }
    \cup { Descriptor(n, i, a, p, c) :
          n \in ByteSample, i \in ByteSample, a \in Byte, p \in ByteSample, c \in {0} }
    \cup { Descriptor(n, i, a, p, c) :
          n \in ByteSample, i \in ByteSample, a \in ByteSample, p \in Byte, c \in {0} }

InitBytes ==
    /\ \E d \in SweepDescriptors, data \in SeqsUpTo(NativeIfaces, 1) :
          /\ desc = [d EXCEPT !.bNumInterfaces = Len(data)]
          /\ heap = [alloc |-> TRUE, data |-> data]
    /\ InitRest

NextBytes ==
    \/ FromLibusb
    \/ Accessors

SpecBytes == InitBytes /\ [][NextBytes]_vars

----------------------------------------------------------------------------
(* Properties *)

Bit(v, k) == (v \div (2 ^ k)) % 2 = 1

Called(op) == outcome = "ok" /\ ret.op = op

\* the native side is no longer what from_libusb read
NativeChanged ==
    /\ source # NoSource
    /\ \/ desc # source.desc
       \/ heap # [alloc |-> TRUE, data |-> source.data]

\* C1: description_string_index() is None iff the iConfiguration that was read is 0,
\* and is Some(v) with the same v for every nonzero v.
C1_DescriptionStringIndex ==
    Called("description_string_index") =>
        /\ (ret.val = None) <=> (source.desc.iConfiguration = 0)
        /\ source.desc.iConfiguration # 0 =>
               ret.val = [tag |-> "Some", val |-> source.desc.iConfiguration]

C1_Witness ==
    /\ Called("description_string_index")
    /\ source.desc.iConfiguration = 200
    /\ ret.val = [tag |-> "Some", val |-> 200]

\* C2: max_power() is exactly twice the bMaxPower that was read, as an integer:
\* no wrap modulo 256, no saturation, no clamping.
C2_MaxPower ==
    Called("max_power") => ret.val = source.desc.bMaxPower + source.desc.bMaxPower

C2_Witness ==
    Called("max_power") /\ source.desc.bMaxPower = 255 /\ ret.val = 510

\* C3: self_powered() is true iff bit 6 of the bmAttributes that was read is set,
\* whatever the other bits and the other fields are.
C3_SelfPowered ==
    Called("self_powered") => (ret.val = Bit(source.desc.bmAttributes, 6))

C3_Witness ==
    /\ Called("self_powered")
    /\ source.desc.bmAttributes = 32
    /\ ret.val = FALSE

\* C4: remote_wakeup() is true iff bit 5 of the bmAttributes that was read is set,
\* whatever the other bits and the other fields are.
C4_RemoteWakeup ==
    Called("remote_wakeup") => (ret.val = Bit(source.desc.bmAttributes, 5))

C4_Witness ==
    /\ Called("remote_wakeup")
    /\ source.desc.bmAttributes = 64
    /\ ret.val = FALSE

\* C5: for a valid array, interfaces() has exactly bNumInterfaces elements and its
\* k-th element is the conversion of the k-th native record.
C5_Interfaces ==
    (Called("interfaces") /\ source.valid) =>
        /\ Len(ret.val) = source.desc.bNumInterfaces
        /\ \A k \in 1 .. source.desc.bNumInterfaces :
               ret.val[k] = interface_from_libusb(source.data[k])

C5_Witness ==
    /\ Called("interfaces")
    /\ source.valid
    /\ source.desc.bNumInterfaces = 2
    /\ Len(ret.val) = 2
    /\ ret.val[1] # ret.val[2]

\* C6: number() is the bConfigurationValue that was read, unchanged.
C6_Number ==
    Called("number") => ret.val = source.desc.bConfigurationValue

C6_Witness ==
    Called("number") /\ source.desc.bConfigurationValue = 255 /\ ret.val = 255

\* C7: on every valid input the conversion can be made, and a call of it ends with a
\* Configuration: it never faults and never rejects a value.
C7_Total ==
    /\ []((outcome = "none" /\ ValidInput(desc, heap)) => ENABLED FromLibusb)
    /\ [][(outcome = "none" /\ ValidInput(desc, heap) /\ outcome' # "none") =>
              (outcome' = "ok" /\ config' # NoConfig)]_vars

C7_Witness ==
    /\ outcome = "ok"
    /\ source.valid
    /\ source.desc.bNumInterfaces = 0
    /\ source.desc.bConfigurationValue = 0
    /\ config # NoConfig

\* C8: once built, the Configuration never changes, and an accessor called again
\* returns what it returned before.
C8_Immutable ==
    [][outcome = "ok" =>
          /\ config' = config
          /\ (ret'.op = ret.op => ret'.val = ret.val)]_vars

C8_Witness ==
    /\ Called("max_power")
    /\ config.max_power = 255
    /\ ret.val = 510

\* C9: when the native descriptor or its array has been overwritten or freed after a
\* valid conversion, every accessor still returns what was there at conversion time.
C9_OwnsCopies ==
    (NativeChanged /\ source.valid /\ outcome = "ok") =>
        /\ ret.op = "number" => ret.val = source.desc.bConfigurationValue
        /\ ret.op = "max_power" => ret.val = 2 * source.desc.bMaxPower
        /\ ret.op = "self_powered" => ret.val = Bit(source.desc.bmAttributes, 6)
        /\ ret.op = "remote_wakeup" => ret.val = Bit(source.desc.bmAttributes, 5)
        /\ ret.op = "description_string_index" =>
               ret.val = IF source.desc.iConfiguration = 0 THEN None
                         ELSE Some(source.desc.iConfiguration)
        /\ ret.op = "interfaces" =>
               /\ Len(ret.val) = source.desc.bNumInterfaces
               /\ \A k \in 1 .. source.desc.bNumInterfaces :
                      ret.val[k] = interface_from_libusb(source.data[k])

C9_Witness ==
    /\ Called("interfaces")
    /\ source.valid
    /\ ~heap.alloc
    /\ writes > 0
    /\ Len(ret.val) = 2

\* C10: the conversion leaves the native descriptor and the native interface array
\* as they were, and frees nothing.
C10_InputUntouched ==
    [][(outcome = "none" /\ outcome' # "none") => (desc' = desc /\ heap' = heap)]_vars

C10_Witness ==
    /\ outcome = "ok"
    /\ source.valid
    /\ ~NativeChanged
    /\ source.desc.bNumInterfaces = 2

====
